---- MODULE Spec2Model ----
(***************************************************************************)
(* Response unification and fault containment layer of gin-starter.        *)
(*                                                                         *)
(* One request at a time travels through the handler chain that            *)
(* GinStarter.Start registers on the engine:                               *)
(*                                                                         *)
(*   RecoverHandler          (defer recover; ctx.Next)                     *)
(*   RewriteHttpStatusCodeHandler + HttpStatusCodeHandler                  *)
(*                           (unless DisableBadHttpCodeResolver)           *)
(*   the non-nil GlobalMiddlewares, in order                               *)
(*   the route's HandlerWrappers (none on an unmatched route)              *)
(*                                                                         *)
(* and the engine finishes the request (it commits the header it still     *)
(* holds; on an unmatched route it writes its default 404/405 page when    *)
(* nothing was written and its status is still the one it set).            *)
(*                                                                         *)
(* The record w is the request's writer: the engine's own response writer  *)
(* (memStatus, written, and what reached the wire: wireStatus, wireHeader, *)
(* wireCookies, body), the header map, and the responseStatusRewriter put  *)
(* around it (wrapped, statusCode).                                        *)
(*                                                                         *)
(* Spec serves one request after the other.  SpecConc serves two           *)
(* connections whose steps interleave (parked is the request that is not   *)
(* running).  SpecData is the builder of a ResponseData (AddHeader,        *)
(* AddHeaders, AddCookie, AddCookies) followed by its write.               *)
(***************************************************************************)
EXTENDS Integers, Sequences, FiniteSets, TLC

VARIABLES
    disableBadHttpCodeResolver, \* GinConfig.DisableBadHttpCodeResolver
    ignoreHttpCode,             \* GinConfig.IgnoreHttpCode
    panicResolver,              \* GinConfig.PanicResolver: "unset", "default", "nil", "custom"
    globalMiddlewares,          \* GinConfig.GlobalMiddlewares: TRUE = a middleware, FALSE = a nil entry
    routeHandlers,              \* number of HandlerWrappers registered on the route
    httpCodeWithStatus,         \* the status registry
    chain,                      \* the engine's registered global middlewares (indices into globalMiddlewares)
    pc,                         \* where the request is
    route,                      \* "matched", "noRoute", "noMethod"
    w,                          \* the request's writer and context
    mwPos,                      \* next position in chain
    hPos,                       \* next handler of the route
    failure,                    \* the value of the panic being propagated, or "none"
    calls,                      \* what was invoked for this request, in order
    parked,                     \* the request of the other connection, while this one runs
    responseData,               \* a ResponseData under construction
    addedHeaders,               \* the headers handed to AddHeader / AddHeaders so far, in call order
    addedCookies                \* the cookies handed to AddCookie / AddCookies so far, in call order

vars == <<disableBadHttpCodeResolver, ignoreHttpCode, panicResolver, globalMiddlewares,
          routeHandlers, httpCodeWithStatus, chain, pc, route, w, mwPos, hPos, failure, calls,
          parked, responseData, addedHeaders, addedCookies>>

\* What Start and the package initialisation set up and every request reads.
sharedVars == <<disableBadHttpCodeResolver, ignoreHttpCode, panicResolver, globalMiddlewares,
                routeHandlers, httpCodeWithStatus, chain>>

\* The state of the builder calls on a ResponseData.
buildVars == <<responseData, addedHeaders, addedCookies>>

configVars == <<disableBadHttpCodeResolver, ignoreHttpCode, globalMiddlewares, routeHandlers>>

----
\* Bounds of the model.
MaxMiddlewares == 2
MaxHandlers == 2
\* Entries added to one ResponseData.
MaxHeaders == 3
MaxCookies == 2

\* net/http status codes used by the code.
StatusOK == 200
StatusNotFound == 404
StatusMethodNotAllowed == 405

\* Statuses a handler or middleware may ask for; 204 admits no body, 403 is in
\* the registry, 500 is not.
UserCodes == {200, 204, 403, 500}
\* Codes that a configuration may list in IgnoreHttpCode.
IgnorableCodes == {404, 500}

MIMEJSON == "application/json"
MIMEPlain == "text/plain"

HeaderNames == {"Content-Type", "X-Trace"}
NoHeaders == [h \in HeaderNames |-> ""]

----
\* Domain statuses (StatusCode) and the envelope.

StatusCodeException == "Exception"
StatusCodeSuccess == "Success"

\* RestRespStruct: the envelope {status, message, data}; the message follows the status.
NewRestStatusError(statusCode) == [status |-> statusCode, data |-> "none"]
NewRestException == NewRestStatusError(StatusCodeException)
NewRestSuccess(data) == [status |-> StatusCodeSuccess, data |-> data]

\* responseJsonDataStructDecoder.Decode: the envelope's bytes, or an error for a
\* value the encoder rejects (Encodable is the err == nil of the call).
Encodable(v) == v.data # "unencodable"
Decode(v) == <<"{status:", v.status, ",data:", v.data, "}">>

\* Body bytes of a raw response.
Bytes(s) == <<s>>
NoBytes == <<>>

----
\* Responses.  kind "nil" is the nil Response; "common" is commonResp (fn is its
\* ginFn, "none" when nil); "rest" is restResp.  hasData: responseData is not nil.

Response(kind, fn, code, hasData, data, contentType, statusCode, headers, cookies) ==
    [kind |-> kind, fn |-> fn, code |-> code, hasData |-> hasData, data |-> data,
     contentType |-> contentType, statusCode |-> statusCode,
     headers |-> headers, cookies |-> cookies]

NilResponse == Response("nil", "none", 0, FALSE, NoBytes, "", 0, <<>>, <<>>)

\* NewRespRest: a ResponseData with content type JSON.
NewRespRest == Response("rest", "none", 0, TRUE, NoBytes, MIMEJSON, 0, <<>>, <<>>)

\* What a builder that panics leaves its caller: no Response at all.
BuilderPanic == Response("panic", "none", 0, FALSE, NoBytes, "", 0, <<>>, <<>>)

\* restResp.SetDataResponse: panics when the decoder returns an error.
SetDataResponse(r, v) ==
    IF Encodable(v) THEN [r EXCEPT !.data = Decode(v)] ELSE BuilderPanic

RespRestSuccess(data) == SetDataResponse(NewRespRest, NewRestSuccess(data))
RespRestException == SetDataResponse(NewRespRest, NewRestException)
RespRestStatusError(statusCode) == SetDataResponse(NewRespRest, NewRestStatusError(statusCode))

\* restResp.DataBuilder: the ResponseData is whatever the caller built.
DataBuilder(data, contentType, statusCode, headers, cookies) ==
    Response("rest", "none", 0, TRUE, data, contentType, statusCode, headers, cookies)

\* commonResp literals with only ginFn set.
GinFnResp(fn, code, data, contentType) ==
    Response("common", fn, code, FALSE, data, contentType, 0, <<>>, <<>>)

\* commonResp.DataBuilder: the ResponseData is whatever the caller built; the
\* ginFn of the response stays.
CommonDataBuilder(r, data, contentType, statusCode, headers, cookies) ==
    [r EXCEPT !.hasData = TRUE, !.data = data, !.contentType = contentType,
              !.statusCode = statusCode, !.headers = headers, !.cookies = cookies]

RespHttpStatusCode(statusCode) == GinFnResp("status", statusCode, NoBytes, "")
RespAbortWithHttpStatusCode(statusCode) == GinFnResp("abort", statusCode, NoBytes, "")
RespJson(data, httpStatusCode) == GinFnResp("data", httpStatusCode, Bytes(data), MIMEJSON)
RespTextPlain(data, httpStatusCode) == GinFnResp("data", httpStatusCode, Bytes(data), MIMEPlain)

\* ResponseData and its builder calls.
NewResponseData ==
    [data |-> NoBytes, contentType |-> "", statusCode |-> 0, headers |-> <<>>, cookies |-> <<>>]

\* An AddHeaders that stores the given list in place of the one it holds (a mutant).
AddHeadersReplaces(r, headers) == [r EXCEPT !.headers = headers]

AddHeaders(r, headers) ==
    IF Len(r.headers) # 0
    THEN [r EXCEPT !.headers = @ \o headers]
    ELSE [r EXCEPT !.headers = headers]

AddHeader(r, header) ==
    IF Len(r.headers) = 0
    THEN [r EXCEPT !.headers = <<header>>]
    ELSE [r EXCEPT !.headers = Append(@, header)]

AddCookies(r, cookies) ==
    IF Len(r.cookies) # 0
    THEN [r EXCEPT !.cookies = @ \o cookies]
    ELSE [r EXCEPT !.cookies = cookies]

AddCookie(r, cookie) ==
    IF Len(r.cookies) = 0
    THEN [r EXCEPT !.cookies = <<cookie>>]
    ELSE [r EXCEPT !.cookies = Append(@, cookie)]

\* Header and cookie entries the builder calls are given; an empty value asks
\* for the header to be cleared.
HeaderEntries ==
    {[name |-> "X-Trace", value |-> v] : v \in {"t1", "t2", ""}}
    \cup {[name |-> "Content-Type", value |-> v] : v \in {"text/html", ""}}
CookieEntries == {"c1", "c2"}

\* The lists AddHeaders / AddCookies are called with: up to two entries.
HeaderLists == UNION {[1..n -> HeaderEntries] : n \in 0..2}
CookieLists == UNION {[1..n -> CookieEntries] : n \in 0..2}

\* The responses handlers and middlewares return in the model: status only (200
\* and the unmapped 500), abort with a mapped status, a body with status 200,
\* with a status that admits no body and with a mapped error status, the
\* success envelope, ResponseData built by the caller, and a raw response that
\* also carries a ResponseData.
Responses ==
    {RespHttpStatusCode(c) : c \in {200, 500}}
    \cup {RespAbortWithHttpStatusCode(403)}
    \cup {RespJson("payload", c) : c \in {200, 204, 403}}
    \cup {RespRestSuccess("payload")}
    \cup {DataBuilder(Bytes("payload"), "", 500, <<>>, <<>>),
          DataBuilder(NoBytes, MIMEJSON, 500,
                      <<[name |-> "X-Trace", value |-> "t1"]>>, <<"c1">>),
          DataBuilder(Bytes("payload"), MIMEPlain, 0,
                      <<[name |-> "X-Trace", value |-> "t1"],
                        [name |-> "X-Trace", value |-> ""]>>, <<"c1", "c2">>),
          CommonDataBuilder(RespHttpStatusCode(200), Bytes("unused"), MIMEPlain, 500,
                            <<[name |-> "X-Trace", value |-> "t2"]>>, <<"c3">>)}

\* What a call of a handler or middleware can produce: a Response, nil, or the
\* panic of a structured builder whose data the encoder rejects.
Outcomes == Responses \cup {NilResponse, RespRestSuccess("unencodable")}

----
\* The engine's response writer (gin.ResponseWriter as the code consumes it).

NewWriter(engineStatus) ==
    [wrapped |-> FALSE, statusCode |-> 0,
     memStatus |-> engineStatus, written |-> FALSE,
     wireStatus |-> 0, wireHeader |-> NoHeaders, wireCookies |-> <<>>, body |-> <<>>,
     header |-> NoHeaders, cookies |-> <<>>, aborted |-> FALSE]

\* WriteHeader of the engine's writer: keeps the status, nothing is sent; ignored
\* once the header is on the wire.
MemWriteHeader(x, code) ==
    IF code > 0 /\ x.memStatus # code /\ ~x.written
    THEN [x EXCEPT !.memStatus = code]
    ELSE x

\* WriteHeaderNow of the engine's writer: sends status and headers, once.
MemWriteHeaderNow(x) ==
    IF ~x.written
    THEN [x EXCEPT !.written = TRUE, !.wireStatus = x.memStatus,
                   !.wireHeader = x.header, !.wireCookies = x.cookies]
    ELSE x

\* Write of the engine's writer: sends the header if it was not, then the bytes.
MemWrite(x, data) ==
    LET y == MemWriteHeaderNow(x) IN [y EXCEPT !.body = Append(@, data)]

\* Written of the engine's writer (the rewriter does not override it).
Written(x) == x.written

----
\* responseStatusRewriter

\* A WriteHeader that passes the status on and sends the header, as the engine
\* writer's own would (a mutant).
RewriterWriteHeaderCommits(x, code) ==
    MemWriteHeaderNow(MemWriteHeader([x EXCEPT !.statusCode = code], code))

RewriterWriteHeader(x, code) == [x EXCEPT !.statusCode = code]

\* A Write that does not pass the buffered status on before the first bytes (a
\* mutant).
RewriterWriteWithoutStatus(x, data) == MemWrite(x, data)

RewriterWrite(x, data) ==
    LET y == IF ~Written(x) THEN MemWriteHeader(x, x.statusCode) ELSE x
    IN  MemWrite(y, data)

RewriterWriteHeaderNow(x) ==
    IF ~Written(x) THEN MemWriteHeader(x, x.statusCode) ELSE x

RewriterStatus(x) == x.statusCode

----
\* ctx.Writer: the rewriter once RewriteHttpStatusCodeHandler installed it, the
\* engine's writer otherwise.

WriterWriteHeader(x, code) ==
    IF x.wrapped THEN RewriterWriteHeader(x, code) ELSE MemWriteHeader(x, code)

WriterWrite(x, data) ==
    IF x.wrapped THEN RewriterWrite(x, data) ELSE MemWrite(x, data)

WriterWriteHeaderNow(x) ==
    IF x.wrapped THEN RewriterWriteHeaderNow(x) ELSE MemWriteHeaderNow(x)

WriterStatus(x) ==
    IF x.wrapped THEN RewriterStatus(x) ELSE x.memStatus

----
\* gin.Context operations the code calls.

CtxStatus(x, code) == WriterWriteHeader(x, code)

\* Context.Header: an empty value removes the header.
CtxHeader(x, name, value) == [x EXCEPT !.header[name] = value]

CtxSetCookie(x, cookie) == [x EXCEPT !.cookies = Append(@, cookie)]

CtxAbort(x) == [x EXCEPT !.aborted = TRUE]

\* The renderers set Content-Type only when none is set yet.
WriteContentType(x, contentType) ==
    IF x.header["Content-Type"] = ""
    THEN [x EXCEPT !.header["Content-Type"] = contentType]
    ELSE x

BodyAllowedForStatus(code) ==
    ~(code \in 100..199 \/ code = 204 \/ code = 304)

\* Context.Data / Context.JSON: status, content type, body.
CtxData(x, code, contentType, data) ==
    LET y == WriteContentType(CtxStatus(x, code), contentType)
    IN  IF BodyAllowedForStatus(code)
        THEN WriterWrite(y, data)
        ELSE WriterWriteHeaderNow(y)

\* A status write that does not abort the chain (a mutant).
CtxStatusWithoutAbort(x, code) ==
    WriterWriteHeaderNow(CtxStatus(x, code))

CtxAbortWithStatus(x, code) ==
    CtxAbort(WriterWriteHeaderNow(CtxStatus(x, code)))

----
\* httpResponse

RECURSIVE SetCookies(_, _)
SetCookies(x, cookies) ==
    IF cookies = <<>> THEN x
    ELSE SetCookies(CtxSetCookie(x, Head(cookies)), Tail(cookies))

RECURSIVE SetHeaders(_, _)
SetHeaders(x, headers) ==
    IF headers = <<>> THEN x
    ELSE SetHeaders(CtxHeader(x, Head(headers).name, Head(headers).value), Tail(headers))

\* The ginFn closures of the raw builders.
GinFn(x, response) ==
    CASE response.fn = "status" -> CtxStatus(x, response.code)
      [] response.fn = "abort"  -> CtxAbortWithStatus(x, response.code)
      [] response.fn = "data"   -> CtxData(x, response.code, response.contentType, response.data)
      [] OTHER -> x

\* An httpResponse that writes the body before the cookies and the headers (a
\* mutant).
HttpResponseBodyFirst(x, response) ==
    IF response.kind = "common" /\ response.fn # "none"
    THEN GinFn(x, response)
    ELSE IF ~response.hasData
    THEN x
    ELSE LET contentType == IF response.contentType = "" THEN MIMEJSON
                            ELSE response.contentType
             httpStatusCode == IF response.statusCode = 0 THEN StatusOK
                               ELSE response.statusCode
             y == IF Len(response.data) > 0
                  THEN CtxData(x, httpStatusCode, contentType, response.data)
                  ELSE x
         IN  SetHeaders(SetCookies(y, response.cookies), response.headers)

\* httpResponse on a non-nil response: a commonResp with a ginFn runs the
\* closure and nothing else; any other response has its ResponseData applied
\* (cookies, headers, then the body with status and content type), the status
\* and content type only together with a non-empty body.  The nil response is
\* the caller's case: response.Data() on a nil interface panics (see Middleware).
HttpResponse(x, response) ==
    IF response.kind = "common" /\ response.fn # "none"
    THEN GinFn(x, response)
    ELSE IF ~response.hasData
    THEN x
    ELSE LET contentType == IF response.contentType = "" THEN MIMEJSON
                            ELSE response.contentType
             httpStatusCode == IF response.statusCode = 0 THEN StatusOK
                               ELSE response.statusCode
             y == SetHeaders(SetCookies(x, response.cookies), response.headers)
         IN  IF Len(response.data) > 0
             THEN CtxData(y, httpStatusCode, contentType, response.data)
             ELSE y

----
\* Resolvers.

\* A registry that tells 401 from 403 (a mutant).
RegistryWithUnauthorized ==
    (400 :> "BadRequestParameters") @@ (403 :> "Forbidden") @@ (404 :> "NotFound")
    @@ (405 :> "MethodNotAllowed") @@ (415 :> "MediaTypeNotAllowed")
    @@ (413 :> "UploadLimitExceeded") @@ (401 :> "Unauthorized")

\* init() of the registry.
StatusRegistry ==
    (400 :> "BadRequestParameters") @@ (403 :> "Forbidden") @@ (404 :> "NotFound")
    @@ (405 :> "MethodNotAllowed") @@ (415 :> "MediaTypeNotAllowed")
    @@ (413 :> "UploadLimitExceeded") @@ (401 :> "Forbidden")

\* A resolver that answers every bad status with the generic envelope (a mutant).
AlwaysExceptionResponse(registry, httpStatusCode) ==
    RespRestStatusError(StatusCodeException)

\* defaultHttpStatusCodeHandlerResponse
DefaultHttpStatusCodeHandlerResponse(registry, httpStatusCode) ==
    IF httpStatusCode \notin DOMAIN registry
    THEN RespRestStatusError(StatusCodeException)
    ELSE RespRestStatusError(registry[httpStatusCode])

\* A recovery resolver that answers nothing (a mutant).
RecoverResponseDropped(err) == NilResponse

\* defaultRecoverHandlerResponse
DefaultRecoverHandlerResponse(err) == RespRestException

\* The configured PanicResolver applied to the recovered value: the default one,
\* one that returns nil, or a caller's own that reports the value as text.
PanicResolverResponse(resolver, err) ==
    CASE resolver = "nil"    -> NilResponse
      [] resolver = "custom" -> RespTextPlain(err, StatusOK)
      [] OTHER               -> DefaultRecoverHandlerResponse(err)

\* A recovery that answers a nil Response with status 500 (a mutant).
RecoverWriteStatus(x, response) ==
    IF response # NilResponse THEN HttpResponse(x, response) ELSE CtxStatus(x, 500)

\* What the deferred function of RecoverHandler writes for the resolver's Response.
RecoverWrite(x, response) ==
    IF response # NilResponse THEN HttpResponse(x, response) ELSE x

\* Whether the bad-status resolver leaves this status alone (IgnoreHttpCode).
IsIgnoredHttpCode(ignored, statusCode) == statusCode \in ignored

----
\* The engine's pages for an unmatched route.
EngineStatus(rt) ==
    CASE rt = "noRoute"  -> StatusNotFound
      [] rt = "noMethod" -> StatusMethodNotAllowed
      [] OTHER           -> StatusOK

DefaultBody(rt) ==
    IF rt = "noRoute" THEN Bytes("404 page not found") ELSE Bytes("405 method not allowed")

\* Where the chain goes after middleware position pos - 1 continued.
ChainPc(ch, pos, rt, x) ==
    IF pos <= Len(ch) THEN "mw"
    ELSE IF rt = "matched" THEN "handler"
    ELSE IF x.wrapped THEN "httpStatus"
    ELSE "engine"

\* A registration that installs the bad-status pipeline whatever the flag says
\* (a mutant).
FirstPcAlwaysRewrite(disabled, ch, rt) == "rewrite"

\* Where a request starts after RecoverHandler: the bad-status pipeline is
\* registered unless DisableBadHttpCodeResolver.
FirstPc(disabled, ch, rt) ==
    IF disabled THEN ChainPc(ch, 1, rt, NewWriter(EngineStatus(rt))) ELSE "rewrite"

\* Where the chain goes once no further handler runs.
AfterChain(x) == IF x.wrapped THEN "httpStatus" ELSE "engine"

Call(unit, idx, response, ok, fail, code) ==
    [unit |-> unit, idx |-> idx, resp |-> response, ok |-> ok, failure |-> fail, code |-> code]

\* Registration without the nil test (a mutant).
AllIndices(ms, i) == [j \in 1..Len(ms) |-> j]

RECURSIVE NonNilIndices(_, _)
NonNilIndices(ms, i) ==
    IF i > Len(ms) THEN <<>>
    ELSE IF ms[i] THEN <<i>> \o NonNilIndices(ms, i + 1)
    ELSE NonNilIndices(ms, i + 1)

MiddlewareLists == UNION {[1..n -> BOOLEAN] : n \in 0..MaxMiddlewares}

\* The state a request owns: its context, its writer and where it is in the chain.
Request(p, rt, x, mw, h, f, cs) ==
    [pc |-> p, route |-> rt, w |-> x, mwPos |-> mw, hPos |-> h, failure |-> f, calls |-> cs]

\* A connection waiting for its next request.
NewRequest == Request("idle", "matched", NewWriter(StatusOK), 1, 1, "none", <<>>)

----
Init ==
    /\ disableBadHttpCodeResolver \in BOOLEAN
    /\ ignoreHttpCode \in SUBSET IgnorableCodes
    /\ panicResolver \in {"unset", "nil", "custom"}
    /\ globalMiddlewares \in MiddlewareLists
    /\ routeHandlers \in 1..MaxHandlers
    /\ httpCodeWithStatus = StatusRegistry
    /\ chain = <<>>
    /\ pc = "boot"
    /\ route = "matched"
    /\ w = NewWriter(StatusOK)
    /\ mwPos = 1
    /\ hPos = 1
    /\ failure = "none"
    /\ calls = <<>>
    /\ parked = NewRequest
    /\ responseData = NewResponseData
    /\ addedHeaders = <<>>
    /\ addedCookies = <<>>

\* GinStarter.Start: the default panic resolver when none is configured, and one
\* engine handler per non-nil global middleware, in the order of the list.
Start ==
    /\ pc = "boot"
    /\ panicResolver' = IF panicResolver = "unset" THEN "default" ELSE panicResolver
    /\ chain' = NonNilIndices(globalMiddlewares, 1)
    /\ pc' = "idle"
    /\ UNCHANGED <<buildVars, parked, configVars, httpCodeWithStatus, route, w, mwPos, hPos, failure, calls>>

\* The engine takes a request: a matched route, or its 404 / 405 handling, which
\* sets its own status before the global handlers run.
Serve ==
    /\ pc = "idle"
    /\ \E rt \in {"matched", "noRoute", "noMethod"} :
         /\ route' = rt
         /\ w' = NewWriter(EngineStatus(rt))
         /\ pc' = FirstPc(disableBadHttpCodeResolver, chain, rt)
    /\ mwPos' = 1
    /\ hPos' = 1
    /\ failure' = "none"
    /\ calls' = <<>>
    /\ UNCHANGED <<buildVars, parked, configVars, panicResolver, httpCodeWithStatus, chain>>

\* RewriteHttpStatusCodeHandler up to ctx.Next(): the rewriter replaces ctx.Writer.
RewriteEnter ==
    /\ pc = "rewrite"
    /\ w' = [w EXCEPT !.wrapped = TRUE, !.statusCode = StatusNotFound]
    /\ pc' = ChainPc(chain, 1, route, w')
    /\ UNCHANGED <<buildVars, parked, configVars, panicResolver, httpCodeWithStatus, chain, route, mwPos, hPos,
                   failure, calls>>

\* The engine handler Start wraps around a global middleware.
Middleware ==
    /\ pc = "mw"
    /\ mwPos <= Len(chain)
    /\ \E continued \in BOOLEAN, response \in Outcomes :
         /\ continued => response \in {NilResponse, RespRestSuccess("payload")}
         /\ calls' = Append(calls, Call("mw", chain[mwPos], response, continued,
                                        IF response = BuilderPanic THEN "encode error" ELSE "none", 0))
         /\ IF continued
            THEN /\ mwPos' = mwPos + 1
                 /\ pc' = ChainPc(chain, mwPos + 1, route, w)
                 /\ UNCHANGED <<w, failure>>
            ELSE IF response = BuilderPanic
            THEN \* the builder panicked inside the middleware
                 /\ failure' = "encode error"
                 /\ pc' = "panic"
                 /\ UNCHANGED <<w, mwPos>>
            ELSE IF response = NilResponse
            THEN \* httpResponse(ctx, nil): response.Data() panics
                 /\ failure' = "nil response"
                 /\ pc' = "panic"
                 /\ UNCHANGED <<w, mwPos>>
            ELSE /\ w' = CtxAbort(HttpResponse(w, response))
                 /\ pc' = AfterChain(w)
                 /\ UNCHANGED <<mwPos, failure>>
    /\ UNCHANGED <<buildVars, parked, configVars, panicResolver, httpCodeWithStatus, chain, route, hPos>>

\* A wrapped handler that leaves the status alone on a nil response (a mutant).
HandlerWriteNoStatus(x, response) ==
    IF response # NilResponse THEN HttpResponse(x, response) ELSE x

\* What the wrapped handler writes for a (response, nil) result.
HandlerWrite(x, response) ==
    IF response # NilResponse THEN HttpResponse(x, response) ELSE CtxStatus(x, StatusOK)

\* A wrapper that loses the decoder's error (a mutant).
HandlerFailureOnlyErr(response, err) ==
    IF err THEN "handler error" ELSE "none"

\* The value of the panic a handler call ends with: the error it returned
\* (panic(err) of the wrapper), or the decoder's error inside a builder.
HandlerFailure(response, err) ==
    IF err THEN "handler error"
    ELSE IF response = BuilderPanic THEN "encode error"
    ELSE "none"

\* The engine handler RouterWrapper.handler wraps around a HandlerWrapper.
Handler ==
    /\ pc = "handler"
    /\ hPos <= routeHandlers
    /\ IF w.aborted
       THEN /\ hPos' = hPos + 1
            /\ pc' = IF hPos + 1 <= routeHandlers THEN "handler" ELSE AfterChain(w)
            /\ UNCHANGED <<w, failure, calls>>
       ELSE \E response \in Outcomes, err \in BOOLEAN :
              /\ err => response = NilResponse
              /\ calls' = Append(calls, Call("handler", hPos, response,
                                             ~err /\ response # BuilderPanic,
                                             HandlerFailure(response, err), 0))
              /\ IF err \/ response = BuilderPanic
                 THEN /\ failure' = HandlerFailure(response, err)
                      /\ pc' = "panic"
                      /\ UNCHANGED <<w, hPos>>
                 ELSE /\ w' = HandlerWrite(w, response)
                      /\ hPos' = hPos + 1
                      /\ pc' = IF hPos + 1 <= routeHandlers /\ ~w'.aborted
                               THEN "handler" ELSE AfterChain(w)
                      /\ UNCHANGED failure
    /\ UNCHANGED <<buildVars, parked, configVars, panicResolver, httpCodeWithStatus, chain, route, mwPos>>

\* HttpStatusCodeHandler after ctx.Next().
HttpStatusCodeHandler ==
    /\ pc = "httpStatus"
    /\ LET statusCode == WriterStatus(w) IN
         IF statusCode # StatusOK /\ ~IsIgnoredHttpCode(ignoreHttpCode, statusCode)
         THEN LET response == DefaultHttpStatusCodeHandlerResponse(httpCodeWithStatus, statusCode)
              IN  /\ w' = HttpResponse(WriterWriteHeader(w, StatusOK), response)
                  /\ calls' = Append(calls, Call("badStatus", 0, response, TRUE, "none", statusCode))
         ELSE UNCHANGED <<w, calls>>
    /\ pc' = "rewriteAfter"
    /\ UNCHANGED <<buildVars, parked, configVars, panicResolver, httpCodeWithStatus, chain, route, mwPos, hPos, failure>>

\* RewriteHttpStatusCodeHandler after ctx.Next(): ctx.Writer is the rewriter.
RewriteAfterNext ==
    /\ pc = "rewriteAfter"
    /\ w' = WriterWriteHeader(w, w.statusCode)
    /\ pc' = "engine"
    /\ UNCHANGED <<buildVars, parked, configVars, panicResolver, httpCodeWithStatus, chain, route, mwPos, hPos,
                   failure, calls>>

\* RecoverHandler's deferred function; the panic skipped what HttpStatusCodeHandler
\* and RewriteHttpStatusCodeHandler do after ctx.Next().
Recover ==
    /\ pc = "panic"
    /\ LET response == PanicResolverResponse(panicResolver, failure) IN
         /\ w' = RecoverWrite(w, response)
         /\ calls' = Append(calls, Call("resolver", 0, response, TRUE, failure, 0))
    /\ failure' = "none"
    /\ pc' = "engine"
    /\ UNCHANGED <<buildVars, parked, configVars, panicResolver, httpCodeWithStatus, chain, route, mwPos, hPos>>

\* What the engine does to the writer once the chain returned.
EngineEnd(rt, x) ==
    IF rt = "matched" THEN MemWriteHeaderNow(x)
    ELSE IF Written(x) THEN x
    ELSE IF x.memStatus = EngineStatus(rt)
    THEN WriterWrite([x EXCEPT !.header["Content-Type"] = MIMEPlain], DefaultBody(rt))
    ELSE MemWriteHeaderNow(x)

\* The engine after the chain returned: it sends the header it holds; on an
\* unmatched route it writes its default page through ctx.Writer when nothing was
\* written and its status is still the one it set.
EngineFinish ==
    /\ pc = "engine"
    /\ w' = EngineEnd(route, w)
    /\ pc' = "done"
    /\ UNCHANGED <<buildVars, parked, configVars, panicResolver, httpCodeWithStatus, chain, route, mwPos, hPos,
                   failure, calls>>

\* The connection is ready for the next request.
NextRequest ==
    /\ pc = "done"
    /\ pc' = "idle"
    /\ route' = "matched"
    /\ w' = NewWriter(StatusOK)
    /\ mwPos' = 1
    /\ hPos' = 1
    /\ calls' = <<>>
    /\ UNCHANGED <<buildVars, parked, configVars, panicResolver, httpCodeWithStatus, chain, failure>>

Next ==
    \/ Start
    \/ Serve
    \/ RewriteEnter
    \/ Middleware
    \/ Handler
    \/ HttpStatusCodeHandler
    \/ RewriteAfterNext
    \/ Recover
    \/ EngineFinish
    \/ NextRequest

Spec == Init /\ [][Next]_vars

----
\* Two connections served at once.  Each request runs in its own goroutine on
\* its own gin.Context; the steps of the two interleave.  The variables pc,
\* route, w, mwPos, hPos, failure and calls are those of the request whose
\* goroutine runs; parked holds the other one.

\* A resumed goroutine that finds the buffered status of the one that ran
\* before it, as it would with one rewriter for all requests (a mutant).
ResumeSharedStatus(saved, running) ==
    IF saved.w.wrapped /\ running.w.wrapped
    THEN [saved EXCEPT !.w.statusCode = running.w.statusCode]
    ELSE saved

\* What a goroutine finds when it is scheduled again: the writer that
\* RewriteHttpStatusCodeHandler made for its own request and its own context.
Resume(saved, running) == saved

InitConc ==
    /\ disableBadHttpCodeResolver \in BOOLEAN
    /\ ignoreHttpCode = {}
    /\ panicResolver \in {"unset", "nil"}
    /\ globalMiddlewares = <<TRUE>>
    /\ routeHandlers = 1
    /\ httpCodeWithStatus = StatusRegistry
    /\ chain = <<>>
    /\ pc = "boot"
    /\ route = "matched"
    /\ w = NewWriter(StatusOK)
    /\ mwPos = 1
    /\ hPos = 1
    /\ failure = "none"
    /\ calls = <<>>
    /\ parked = NewRequest
    /\ responseData = NewResponseData
    /\ addedHeaders = <<>>
    /\ addedCookies = <<>>

\* The scheduler runs the other goroutine; the listener accepts connections
\* only after Start.
Switch ==
    /\ pc # "boot"
    /\ LET running == Request(pc, route, w, mwPos, hPos, failure, calls)
           resumed == Resume(parked, running)
       IN  /\ parked' = running
           /\ pc' = resumed.pc
           /\ route' = resumed.route
           /\ w' = resumed.w
           /\ mwPos' = resumed.mwPos
           /\ hPos' = resumed.hPos
           /\ failure' = resumed.failure
           /\ calls' = resumed.calls
    /\ UNCHANGED <<buildVars, sharedVars>>

NextConc ==
    \/ Next
    \/ Switch

SpecConc == InitConc /\ [][NextConc]_vars

----
\* A handler builds a ResponseData by builder calls and returns it; httpResponse
\* writes it.

InitData ==
    /\ disableBadHttpCodeResolver = TRUE
    /\ ignoreHttpCode = {}
    /\ panicResolver = "default"
    /\ globalMiddlewares = <<>>
    /\ routeHandlers = 1
    /\ httpCodeWithStatus = StatusRegistry
    /\ chain = <<>>
    /\ pc = "build"
    /\ route = "matched"
    /\ w = NewWriter(StatusOK)
    /\ mwPos = 1
    /\ hPos = 1
    /\ failure = "none"
    /\ calls = <<>>
    /\ parked = NewRequest
    /\ responseData = NewResponseData
    /\ addedHeaders = <<>>
    /\ addedCookies = <<>>

requestVars == <<pc, route, w, mwPos, hPos, failure, calls>>

CallAddHeader ==
    /\ pc = "build"
    /\ \E header \in HeaderEntries :
         /\ Len(addedHeaders) + 1 <= MaxHeaders
         /\ responseData' = AddHeader(responseData, header)
         /\ addedHeaders' = Append(addedHeaders, header)
    /\ UNCHANGED <<addedCookies, parked, sharedVars, requestVars>>

CallAddHeaders ==
    /\ pc = "build"
    /\ \E headers \in HeaderLists :
         /\ Len(addedHeaders) + Len(headers) <= MaxHeaders
         /\ responseData' = AddHeaders(responseData, headers)
         /\ addedHeaders' = addedHeaders \o headers
    /\ UNCHANGED <<addedCookies, parked, sharedVars, requestVars>>

CallAddCookie ==
    /\ pc = "build"
    /\ \E cookie \in CookieEntries :
         /\ Len(addedCookies) + 1 <= MaxCookies
         /\ responseData' = AddCookie(responseData, cookie)
         /\ addedCookies' = Append(addedCookies, cookie)
    /\ UNCHANGED <<addedHeaders, parked, sharedVars, requestVars>>

CallAddCookies ==
    /\ pc = "build"
    /\ \E cookies \in CookieLists :
         /\ Len(addedCookies) + Len(cookies) <= MaxCookies
         /\ responseData' = AddCookies(responseData, cookies)
         /\ addedCookies' = addedCookies \o cookies
    /\ UNCHANGED <<addedHeaders, parked, sharedVars, requestVars>>

\* The handler returns the ResponseData, with or without body bytes, and
\* httpResponse writes it.
WriteResponseData ==
    /\ pc = "build"
    /\ \E data \in {NoBytes, Bytes("payload")} :
         LET response == DataBuilder(data, responseData.contentType, responseData.statusCode,
                                     responseData.headers, responseData.cookies)
         IN  /\ w' = HttpResponse(w, response)
             /\ calls' = Append(calls, Call("handler", 1, response, TRUE, "none", 0))
    /\ pc' = "written"
    /\ UNCHANGED <<buildVars, parked, sharedVars, route, mwPos, hPos, failure>>

NextData ==
    \/ CallAddHeader
    \/ CallAddHeaders
    \/ CallAddCookie
    \/ CallAddCookies
    \/ WriteResponseData

SpecData == InitData /\ [][NextData]_vars

----
\* Vocabulary of the properties.

Done == pc = "done"

Last(q) == q[Len(q)]

\* Positions of calls of one kind.
CallsAt(unit) == {k \in 1..Len(calls) : calls[k].unit = unit}

\* The handler at position k returned a non-nil error.
HandlerFailedAt(k) ==
    calls[k].unit = "handler" /\ ~calls[k].ok /\ calls[k].failure = "handler error"

\* The middleware at position k returned continue = false with a non-nil Response.
ShortCircuitAt(k) ==
    /\ calls[k].unit = "mw" /\ ~calls[k].ok
    /\ calls[k].resp # NilResponse /\ calls[k].resp # BuilderPanic

\* The body bytes a Response carries, as httpResponse would hand them to the writer.
ResponseBody(r) ==
    IF r.kind = "common" /\ r.fn # "none"
    THEN IF r.fn = "data" /\ BodyAllowedForStatus(r.code) THEN <<r.data>> ELSE <<>>
    ELSE IF r.hasData /\ Len(r.data) > 0 THEN <<r.data>> ELSE <<>>

\* What the engine's own writer holds and what reached the wire.
Underlying(x) == <<x.memStatus, x.written, x.wireStatus, x.wireHeader, x.wireCookies, x.body>>

ExceptionEnvelope == <<"{status:", "Exception", ",data:", "none", "}">>
NotFoundEnvelope == <<"{status:", "NotFound", ",data:", "none", "}">>

----
SingleResponseBody ==
    \A k \in CallsAt("badStatus") \cup CallsAt("resolver") :
        ResponseBody(calls[k].resp) # <<>> => w.body = ResponseBody(calls[k].resp)


\* C3: a middleware that returns continue = false with a non-nil Response stops
\* the chain (no later middleware, no handler), and when that Response carries a
\* body the body delivered to the client is exactly that body.
ShortCircuitBodyDelivered ==
    \A k \in 1..Len(calls) :
        ShortCircuitAt(k) =>
            /\ \A j \in (k + 1)..Len(calls) : calls[j].unit \notin {"mw", "handler"}
            /\ (Done /\ ResponseBody(calls[k].resp) # <<>>)
                  => w.body = ResponseBody(calls[k].resp)

ExpectedDomainStatus(code) ==
    CASE code = 400 -> "BadRequestParameters"
      [] code = 401 -> "Forbidden"
      [] code = 403 -> "Forbidden"
      [] code = 404 -> "NotFound"
      [] code = 405 -> "MethodNotAllowed"
      [] code = 415 -> "MediaTypeNotAllowed"
      [] code = 413 -> "UploadLimitExceeded"
      [] OTHER -> "Exception"

ExpectedEnvelope(code) == <<"{status:", ExpectedDomainStatus(code), ",data:", "none", "}">>

\* Every middleware of the request continued and nothing panicked.
ChainRanThrough ==
    /\ \A k \in CallsAt("mw") : calls[k].ok
    /\ CallsAt("resolver") = {}

TransportStatusAlways200 ==
    (Done /\ ~disableBadHttpCodeResolver /\ ignoreHttpCode = {} /\ panicResolver # "nil")
        => w.wireStatus = 200

\* C7: when the handlers of the matched route return (nil, nil), the request is
\* delivered with transport status 200, no body byte and no Content-Type, and
\* the bad-status resolver adds no envelope; the handler's step itself writes no
\* body and sets no header.
NilNilYieldsBare200 ==
    /\ [](Done /\ route = "matched" /\ CallsAt("handler") # {} /\ ChainRanThrough
            /\ (\A k \in CallsAt("handler") : calls[k].ok /\ calls[k].resp = NilResponse)
          => /\ w.wireStatus = 200
             /\ w.body = <<>>
             /\ w.wireHeader["Content-Type"] = ""
             /\ w.header["Content-Type"] = ""
             /\ CallsAt("badStatus") = {})
    /\ [][(pc = "handler" /\ calls' # calls
             /\ Last(calls').ok /\ Last(calls').resp = NilResponse)
          => w'.body = w.body /\ w'.header = w.header /\ w'.cookies = w.cookies]_vars

NilNilWitness ==
    /\ Done
    /\ route = "matched"
    /\ ~disableBadHttpCodeResolver
    /\ Len(calls) = 1
    /\ calls[1].unit = "handler" /\ calls[1].ok /\ calls[1].resp = NilResponse
    /\ w.wireStatus = 200
    /\ w.body = <<>>

\* C8: when the chain completes without any body write, the status committed
\* on the wire is the buffered status of the deferred-status writer: a handler
\* that only sets a status is delivered with the status that is buffered at the
\* end of the chain.
ChainCompletionCommitsBuffered ==
    (Done /\ w.wrapped /\ CallsAt("resolver") = {} /\ w.body = <<>>
          /\ Len(calls) >= 1 /\ Last(calls).unit = "handler"
          /\ Last(calls).resp.fn = "status")
        => w.wireStatus = w.statusCode

\* A Response whose write makes no status-write call.
NoStatusWrite(r) ==
    /\ ~(r.kind = "common" /\ r.fn # "none")
    /\ ~r.hasData \/ Len(r.data) = 0

\* No call of the request has made a status-write yet.
NoStatusWriteYet ==
    /\ pc \in {"mw", "handler", "httpStatus", "panic"}
    /\ \A k \in 1..Len(calls) :
          \/ calls[k].unit = "mw" /\ calls[k].ok
          \/ calls[k].unit = "handler" /\ ~calls[k].ok
          \/ calls[k].unit \in {"mw", "handler"} /\ calls[k].resp # NilResponse
                /\ NoStatusWrite(calls[k].resp)

\* The step is a single status-write of code c on the deferred-status writer.
StatusWriteStep(c) ==
    \/ /\ pc = "handler" /\ calls' # calls /\ Last(calls').ok
       /\ \/ Last(calls').resp = NilResponse /\ c = 200
          \/ Last(calls').resp.fn = "status" /\ c = Last(calls').resp.code
    \/ /\ pc = "mw" /\ calls' # calls /\ ~Last(calls').ok
       /\ Last(calls').resp.fn = "status" /\ c = Last(calls').resp.code
    \/ pc = "rewriteAfter" /\ c = w.statusCode

\* C9: a status-write on the deferred-status writer only replaces the buffered
\* status and commits nothing to the underlying writer; the buffered status is
\* 404 from the installation of the writer until the first status-write; the
\* accessor returns the most recent status-write.
StatusWriteOnlyBuffers ==
    /\ [][pc = "rewrite" => RewriterStatus(w') = 404 /\ Underlying(w') = Underlying(w)]_vars
    /\ [](w.wrapped /\ NoStatusWriteYet => RewriterStatus(w) = 404)
    /\ [][\A c \in UserCodes \cup {404} :
            (w.wrapped /\ StatusWriteStep(c))
                => RewriterStatus(w') = c /\ Underlying(w') = Underlying(w)]_vars
    /\ [](w.wrapped =>
            \A c \in UserCodes \cup {404, 405} :
                /\ RewriterStatus(RewriterWriteHeader(w, c)) = c
                /\ Underlying(RewriterWriteHeader(w, c)) = Underlying(w))

StatusWriteOnlyBuffersWitness ==
    /\ pc = "httpStatus"
    /\ w.wrapped
    /\ Len(calls) = 1
    /\ calls[1].unit = "handler" /\ calls[1].resp = RespHttpStatusCode(500)
    /\ RewriterStatus(w) = 500
    /\ ~w.written
    /\ w.memStatus = 200

\* C10: a request that ends with a buffered status of the ignore list is
\* delivered with that transport status, and the bad-status resolver writes no
\* envelope for it.
IgnoredStatusDeliveredRaw ==
    (Done /\ w.wrapped /\ CallsAt("resolver") = {} /\ w.statusCode \in ignoreHttpCode)
        => w.wireStatus = w.statusCode /\ CallsAt("badStatus") = {}

----
\* Vocabulary of the properties about writing a Response.

\* The call wrote its Response (httpResponse ran on it).
WroteResponse(c) ==
    \/ c.unit = "handler" /\ c.ok /\ c.resp # NilResponse
    \/ c.unit = "mw" /\ ~c.ok /\ c.resp # NilResponse /\ c.resp # BuilderPanic
    \/ c.unit = "resolver" /\ c.resp # NilResponse
    \/ c.unit = "badStatus"

\* The step is a call that wrote its Response.
StepWrites == calls' # calls /\ calls' # <<>> /\ WroteResponse(Last(calls'))

\* A raw-callback response.
IsRaw(r) == r.kind = "common" /\ r.fn # "none"

\* A response whose ResponseData has no body bytes.
EmptyData(r) == ~IsRaw(r) /\ r.hasData /\ Len(r.data) = 0

EffectiveStatus(r) == IF r.statusCode = 0 THEN 200 ELSE r.statusCode
EffectiveContentType(r) == IF r.contentType = "" THEN "application/json" ELSE r.contentType

\* The value of header name after the entries of headers were applied in order
\* to a header that held prev.
HeaderAfter(prev, headers, name) ==
    LET at == {i \in 1..Len(headers) : headers[i].name = name}
    IN  IF at = {} THEN prev
        ELSE headers[CHOOSE i \in at : \A j \in at : j <= i].value

\* C11: a step that writes a Response whose ResponseData has empty body bytes
\* writes no body, applies its cookies and headers, and makes the status code of
\* the ResponseData (200 when unset) the status of the request.
EmptyBodyAppliesStatus ==
    [][(StepWrites /\ EmptyData(Last(calls').resp)) =>
          LET r == Last(calls').resp IN
            /\ w'.body = w.body
            /\ w'.cookies = w.cookies \o r.cookies
            /\ w'.header["X-Trace"] = HeaderAfter(w.header["X-Trace"], r.headers, "X-Trace")
            /\ WriterStatus(w') = EffectiveStatus(r)]_vars

NilShortCircuitIsSilent ==
    \A k \in 1..Len(calls) :
        (calls[k].unit = "mw" /\ ~calls[k].ok /\ calls[k].resp = NilResponse) =>
            /\ pc # "panic"
            /\ failure = "none"
            /\ CallsAt("resolver") = {}
            /\ \A j \in (k + 1)..Len(calls) : calls[j].unit \notin {"mw", "handler"}

\* C14: when the panic resolver returns nil, the recovery step changes nothing
\* of the request's writer: no body, header, cookie or status, and what was
\* written before the failure stays.
NilResolverWritesNothing ==
    [][(pc = "panic" /\ panicResolver = "nil") =>
          /\ w' = w
          /\ Last(calls').unit = "resolver"
          /\ Last(calls').resp = NilResponse
          /\ Last(calls').failure = failure]_vars

NilResolverWitness ==
    /\ Done
    /\ panicResolver = "nil"
    /\ Len(calls) = 3
    /\ calls[1].unit = "handler" /\ calls[1].resp = RespJson("payload", 200)
    /\ HandlerFailedAt(2)
    /\ calls[3].unit = "resolver" /\ calls[3].resp = NilResponse
    /\ w.body = <<<<"payload">>>>
    /\ w.wireStatus = 200

\* The call at position k ended in the panic of a structured builder.
EncodeFailedAt(k) ==
    calls[k].unit \in {"mw", "handler"} /\ calls[k].resp = BuilderPanic

RegistryProbeCodes ==
    {400, 401, 403, 404, 405, 413, 415} \cup {200, 204, 302, 402, 406, 414, 416, 500, 502, 503}

\* C16: the registry maps exactly 400, 401, 403, 404, 405, 415 and 413 to their
\* domain statuses, every other code resolves to Exception, and no step of any
\* request changes the registry.
RegistryIsExactAndFixed ==
    /\ [](/\ DOMAIN httpCodeWithStatus = {400, 401, 403, 404, 405, 413, 415}
          /\ \A c \in DOMAIN httpCodeWithStatus :
                httpCodeWithStatus[c] = ExpectedDomainStatus(c)
          /\ \A c \in RegistryProbeCodes :
                DefaultHttpStatusCodeHandlerResponse(httpCodeWithStatus, c).data
                    = ExpectedEnvelope(c))
    /\ [][httpCodeWithStatus' = httpCodeWithStatus]_vars

RegistryWitness ==
    /\ Done
    /\ Len(calls) = 2
    /\ calls[1].unit = "handler" /\ calls[1].resp = RespAbortWithHttpStatusCode(403)
    /\ calls[2].unit = "badStatus" /\ calls[2].code = 403
    /\ w.body = <<ExpectedEnvelope(403)>>
    /\ httpCodeWithStatus[403] = "Forbidden"

\* The entries of q are the first entries of q2, in the same order.
IsPrefix(q, q2) ==
    Len(q) <= Len(q2) /\ \A i \in 1..Len(q) : q2[i] = q[i]

\* C17: after any sequence of AddHeader / AddHeaders / AddCookie / AddCookies
\* calls the ResponseData holds the entries in call order, and no call drops or
\* moves an earlier entry; the write emits the cookies in that order and applies
\* the headers in that order, so that the last entry of a name decides and an
\* empty value clears the header set by an earlier entry.
EntriesKeepCallOrder ==
    /\ [](/\ responseData.headers = addedHeaders
          /\ responseData.cookies = addedCookies
          /\ pc = "written" =>
                LET contentType == HeaderAfter("", addedHeaders, "Content-Type")
                    bodyWritten == Len(Last(calls).resp.data) > 0
                IN  /\ w.cookies = addedCookies
                    /\ w.header["X-Trace"] = HeaderAfter("", addedHeaders, "X-Trace")
                    /\ contentType # "" => w.header["Content-Type"] = contentType
                    /\ (contentType = "" /\ ~bodyWritten) => w.header["Content-Type"] = ""
                    /\ bodyWritten => w.wireCookies = addedCookies /\ w.wireHeader = w.header)
    /\ [][pc' = "build" =>
            /\ IsPrefix(responseData.headers, responseData'.headers)
            /\ IsPrefix(responseData.cookies, responseData'.cookies)]_vars

EntriesKeepCallOrderWitness ==
    /\ pc = "written"
    /\ addedHeaders = <<[name |-> "X-Trace", value |-> "t1"],
                        [name |-> "Content-Type", value |-> "text/html"],
                        [name |-> "X-Trace", value |-> ""]>>
    /\ addedCookies = <<"c2", "c1">>
    /\ w.body = <<<<"payload">>>>
    /\ w.wireCookies = <<"c2", "c1">>
    /\ w.wireHeader["X-Trace"] = ""
    /\ w.wireHeader["Content-Type"] = "text/html"

\* What one call of a request does to the writer.
ApplyCall(x, c) ==
    CASE c.unit = "mw" /\ WroteResponse(c) -> CtxAbort(HttpResponse(x, c.resp))
      [] c.unit = "handler" /\ c.ok        -> HandlerWrite(x, c.resp)
      [] c.unit = "resolver"               -> RecoverWrite(x, c.resp)
      [] c.unit = "badStatus"              -> HttpResponse(WriterWriteHeader(x, 200), c.resp)
      [] OTHER                             -> x

RECURSIVE Replay(_, _)
Replay(x, cs) ==
    IF cs = <<>> THEN x ELSE Replay(ApplyCall(x, Head(cs)), Tail(cs))

\* The writer a request of route rt starts its chain with.
RunAloneStart(rt) ==
    IF disableBadHttpCodeResolver THEN NewWriter(EngineStatus(rt))
    ELSE [NewWriter(EngineStatus(rt)) EXCEPT !.wrapped = TRUE, !.statusCode = 404]

\* The writer of a request of route rt that made the calls cs with no other
\* request in the process.
RunAlone(rt, cs) == EngineEnd(rt, Replay(RunAloneStart(rt), cs))

\* The calls a request made are those it makes alone: the middlewares in order
\* up to the first that did not continue, then the handlers, a resolver call
\* directly after a failed call and only there, and a bad-status call exactly
\* for a buffered status other than 200 at the end of the chain.
DecisionsAsAlone(rt, cs) ==
    /\ \A k \in 1..Len(cs) :
          /\ cs[k].unit = "handler" =>
                /\ rt = "matched"
                /\ \A j \in 1..(k - 1) : cs[j].ok /\ cs[j].unit \in {"mw", "handler"}
                /\ Cardinality({j \in 1..(k - 1) : cs[j].unit = "mw"}) = Len(chain)
          /\ cs[k].unit = "resolver" =>
                /\ k > 1 /\ k = Len(cs)
                /\ ~cs[k - 1].ok /\ ~WroteResponse(cs[k - 1])
          /\ cs[k].unit = "badStatus" =>
                /\ k = Len(cs)
                /\ cs[k].code = WriterStatus(Replay(RunAloneStart(rt), SubSeq(cs, 1, k - 1)))
                /\ cs[k].code # 200
    /\ (~disableBadHttpCodeResolver /\ cs # <<>>
           /\ Last(cs).unit \notin {"badStatus", "resolver"})
          => WriterStatus(Replay(RunAloneStart(rt), cs)) = 200
    /\ disableBadHttpCodeResolver => \A k \in 1..Len(cs) : cs[k].unit # "badStatus"

ErrorEnvelope(b) == Len(b) = 5 /\ b[1] = "{status:" /\ b[2] # "Success"

\* C19: with DisableBadHttpCodeResolver no request goes through the bad-status
\* pipeline: no deferred-status writer is installed, the bad-status resolver is
\* never called and writes no envelope, and the status of a handler or of the
\* engine is the one delivered.
DisabledPipelineRewritesNothing ==
    disableBadHttpCodeResolver =>
        /\ ~w.wrapped
        /\ pc \notin {"rewrite", "httpStatus", "rewriteAfter"}
        /\ CallsAt("badStatus") = {}
        /\ Done =>
              /\ w.wireStatus = w.memStatus
              /\ CallsAt("resolver") = {} =>
                    \A i \in 1..Len(w.body) : ~ErrorEnvelope(w.body[i])
              /\ (Len(calls) = 1 /\ WroteResponse(calls[1]) /\ IsRaw(calls[1].resp))
                    => w.wireStatus = calls[1].resp.code
              /\ (route # "matched" /\ \A k \in 1..Len(calls) : calls[k].unit = "mw" /\ calls[k].ok)
                    => w.wireStatus = EngineStatus(route) /\ w.body = <<DefaultBody(route)>>

DisabledPipelineWitness ==
    /\ Done
    /\ disableBadHttpCodeResolver
    /\ Len(calls) = 1
    /\ calls[1].unit = "handler" /\ calls[1].resp = RespHttpStatusCode(500)
    /\ w.wireStatus = 500
    /\ w.body = <<>>

\* C20: after a handler of a route returned RespAbortWithHttpStatusCode, no
\* later handler of the route is invoked (only the bad-status resolver may still
\* write); after a handler returned any other response or (nil, nil), the next
\* handler of the route is invoked.
AbortStopsLaterHandlers ==
    \A k \in CallsAt("handler") :
        /\ (calls[k].ok /\ calls[k].resp.fn = "abort") =>
              /\ w.aborted
              /\ \A j \in (k + 1)..Len(calls) : calls[j].unit = "badStatus"
        /\ (calls[k].ok /\ calls[k].resp.fn # "abort" /\ calls[k].idx < routeHandlers) =>
              \/ k = Len(calls) /\ pc = "handler" /\ hPos = calls[k].idx + 1
              \/ /\ k < Len(calls)
                 /\ calls[k + 1].unit = "handler"
                 /\ calls[k + 1].idx = calls[k].idx + 1

AbortStopsWitness ==
    /\ Done
    /\ routeHandlers = 2
    /\ disableBadHttpCodeResolver
    /\ Len(calls) = 1
    /\ calls[1].unit = "handler" /\ calls[1].idx = 1
    /\ calls[1].resp = RespAbortWithHttpStatusCode(403)
    /\ w.wireStatus = 403
    /\ w.body = <<>>

\* The step belongs to a request in flight (it is not the engine taking or
\* releasing a request).
RequestStep == pc \in {"mw", "handler", "httpStatus", "rewriteAfter", "panic", "engine"}

\* C21: on the deferred-status writer the header is sent by the first body
\* write, with the status buffered at that moment, and the sent status never
\* changes afterwards; a status-write after the first body write changes what
\* the accessor returns and nothing on the wire, so that the two can differ.
CommittedStatusIsFirstWrite ==
    /\ [][(RequestStep /\ w.wrapped /\ pc # "engine") =>
            /\ (w.body = <<>> /\ w'.body # <<>>) =>
                  /\ ~w.written /\ w'.written
                  /\ w'.wireStatus = RewriterStatus(w')
            /\ w'.body = w.body => w'.written = w.written]_vars
    /\ [][(RequestStep /\ w.wrapped /\ w.written) =>
            /\ w'.written
            /\ w'.wireStatus = w.wireStatus
            /\ w'.wireHeader = w.wireHeader
            /\ w'.wireCookies = w.wireCookies
            /\ \A c \in UserCodes \cup {404} :
                  StatusWriteStep(c) => RewriterStatus(w') = c /\ w'.body = w.body]_vars

CommittedStatusWitness ==
    /\ pc = "httpStatus"
    /\ w.wrapped
    /\ Len(calls) = 2
    /\ calls[1].unit = "handler" /\ calls[1].resp = RespJson("payload", 200)
    /\ calls[2].unit = "handler" /\ calls[2].resp = RespHttpStatusCode(500)
    /\ w.body = <<<<"payload">>>>
    /\ w.wireStatus = 200
    /\ RewriterStatus(w) = 500

====
